---- MODULE Spec2Model ----
(***************************************************************************)
(* Model of chatbot.py: the FastAPI chat service around a Gemini           *)
(* processing chain (GeminiChatService, create_app, the uvicorn launch     *)
(* helpers, main) and the companion ChatClient with its interactive loop.  *)
(*                                                                         *)
(* Spec       is the server process: script start, module import, main(),  *)
(*            uvicorn, and the requests served on the one event loop.      *)
(* ClientSpec is a ChatClient: send_message called directly and from       *)
(*            interactive_chat, against an arbitrary HTTP peer.            *)
(*                                                                         *)
(* Text handled by the server is a TLA+ string; a terminal line of the     *)
(* interactive loop is a sequence of one-character strings, so that        *)
(* strip() and lower() are computed character by character.                *)
(* An optional value (None / absent) is <<>>, a present value v is <<v>>.  *)
(***************************************************************************)
EXTENDS Integers, Sequences, FiniteSets, TLC

(* ------------------------------ bounds -------------------------------- *)
MaxRequests == 2      \* HTTP requests received by the server in one run
MaxInputs == 2        \* lines typed into one interactive_chat session
MaxSends == 2         \* send_message calls made by one ChatClient

(* --------------------------- JSON values ------------------------------ *)
\* A JSON value as pydantic sees it: a string, null, or a value of another
\* type that is never coerced to str (an object or an array).
JStr(s) == [kind |-> "str", val |-> s]
JNull == [kind |-> "null", val |-> ""]
JObj == [kind |-> "obj", val |-> ""]

Messages == {"", " ", "Hello"}
Contexts == {"", "ctx"}

\* A field of the body: <<>> when the key is missing, else <<json value>>.
MessageFields == {<<>>, <<JNull>>, <<JObj>>} \cup {<<JStr(s)>> : s \in Messages}
BackgroundFields == {<<>>, <<JNull>>, <<JObj>>} \cup {<<JStr(s)>> : s \in Contexts}
Bodies == [message : MessageFields, background_info : BackgroundFields]
NoBody == [message |-> <<>>, background_info |-> <<>>]

\* What the provider can do with one call.
ProviderTexts == {"Hi there", ""}
ProviderErrors == {"quota exceeded", ""}

\* Environment values of GOOGLE_API_KEY: unset, empty, set.
ApiKeys == {<<>>, <<"">>, <<"secret">>}

VARIABLES
    env,          \* GOOGLE_API_KEY in the process environment (optional string)
    proc,         \* where the script is: "start", "imported", "serving", ...
    llm,          \* <<>> or <<configuration of the ChatGoogleGenerativeAI>>
    keyReads,     \* number of os.getenv("GOOGLE_API_KEY") calls made
    bound,        \* TRUE once uvicorn has bound 127.0.0.1:8000
    requests,     \* requests received, in order of arrival; id = index
    running,      \* id of the request whose handler holds the event loop, or 0
    calls,        \* processing_chain.invoke calls made: [req, prompt, result]
    responses,    \* HTTP responses written: [req, status, key, val]
    cpc,          \* ChatClient: "idle", "chat" (in interactive_chat), "done", "crashed"
    context,      \* interactive_chat's local variable context
    sent,         \* send_message calls: [origin, context, payload, outcome]
    returned,     \* what each send_message call came to: [kind, val]
    trace         \* one entry per input() of interactive_chat

serverVars == <<env, proc, llm, keyReads, bound, requests, running, calls, responses>>
clientVars == <<cpc, context, sent, returned, trace>>
vars == <<env, proc, llm, keyReads, bound, requests, running, calls, responses,
          cpc, context, sent, returned, trace>>

(* ------------------------- GeminiChatService -------------------------- *)
\* Python truthiness of an optional string: None and "" are falsy.
Truthy(opt) == IF opt = <<>> THEN FALSE ELSE opt[1] # ""

\* `x or ""` on an optional string.
OrEmpty(opt) == IF Truthy(opt) THEN opt[1] ELSE ""

\* Variant: the check written as `if api_key is None`.
KeyMissingIsNone(api_key) == api_key = <<>>

\* __init__: the configuration check, `if not api_key: raise ValueError`.
KeyMissing(api_key) == ~Truthy(api_key)

\* __init__: the model object built from the key.
NewLlm(api_key) ==
    [model |-> "gemini-2.5-flash", google_api_key |-> api_key[1], temperature |-> "0.7"]

\* The ChatPromptTemplate of __init__, formatted with its two variables.
Template(background_context, user_message) ==
    "You are a helpful AI assistant. " \o background_context
        \o "\n\nUser inquiry: " \o user_message

\* Variant: the context segment built without the `if context` test.
PayloadAlwaysContext(user_msg, ctx) ==
    [background_context |-> "Context: " \o ctx, user_message |-> user_msg]

\* generate_response: the payload handed to the processing chain.
Payload(user_msg, ctx) ==
    [background_context |-> IF ctx # "" THEN "Context: " \o ctx ELSE "",
     user_message |-> user_msg]

\* generate_response: the prompt the chain sends for (user_msg, ctx).
Prompt(user_msg, ctx) ==
    Template(Payload(user_msg, ctx).background_context,
             Payload(user_msg, ctx).user_message)

\* Variant: a fixed detail that drops the exception's message.
FailureDetailGeneric(e) == "AI processing failed: " \o "internal error"

\* generate_response: the HTTPException detail for an exception e.
FailureDetail(e) == "AI processing failed: " \o e

(* --------------------------- MessageRequest --------------------------- *)
\* Variant: the field declared without min_length.
MessageOkNoMinLength(field) ==
    IF field = <<>> THEN FALSE ELSE field[1].kind = "str"

\* message: str = Field(..., min_length=1): required, a string, length >= 1.
MessageOk(field) ==
    IF field = <<>> THEN FALSE
    ELSE IF field[1].kind # "str" THEN FALSE
    ELSE Len(field[1].val) >= 1

\* background_info: Union[str, None] = Field(None): missing, null or a string.
BackgroundOk(field) ==
    IF field = <<>> THEN TRUE ELSE field[1].kind \in {"str", "null"}

\* The body deserialises into a MessageRequest.
Validates(body) == MessageOk(body.message) /\ BackgroundOk(body.background_info)

\* req.message and req.background_info of a validated body.
ReqMessage(body) == body.message[1].val
ReqBackground(body) ==
    IF body.background_info = <<>> THEN <<>>
    ELSE IF body.background_info[1].kind = "null" THEN <<>>
    ELSE <<body.background_info[1].val>>

\* Variant: a handler that falls back on the previous request's message
\* when the request brings no context of its own.
HandlerContextWithHistory(body) ==
    IF Truthy(ReqBackground(body)) THEN ReqBackground(body)[1]
    ELSE IF calls = <<>> THEN ""
    ELSE ReqMessage(requests[calls[Len(calls)].req].body)

\* handle_conversation: the context argument, `req.background_info or ""`.
HandlerContext(body) == OrEmpty(ReqBackground(body))

(* ------------------------------ startup ------------------------------- *)
\* create_app() -> GeminiChatService(): reads the key, raises or builds llm.
\* Runs as part of every import of the module (line 363).
Construct(onFail, onOk) ==
    /\ keyReads' = keyReads + 1
    /\ IF KeyMissing(env)
       THEN proc' = onFail /\ llm' = <<>>
       ELSE proc' = onOk /\ llm' = <<NewLlm(env)>>

\* python chatbot.py: the module body runs as __main__, `app = create_app()`.
ImportModule ==
    /\ proc = "start"
    /\ Construct("crashed", "imported")
    /\ UNCHANGED <<env, bound, requests, running, calls, responses>>
    /\ UNCHANGED clientVars

\* main(): the menu choice.  "1", "2", "3" start uvicorn, "4" only a client.
Choices == {"1", "2", "3", "4", "other"}
main(choice) ==
    /\ proc = "imported"
    /\ proc' = CASE choice \in {"1", "2", "3"} -> "launching"
               [] choice = "4" -> "client_only"
               [] OTHER -> "exited"
    /\ UNCHANGED <<env, llm, keyReads, bound, requests, running, calls, responses>>
    /\ UNCHANGED clientVars

\* start_server / run_server_in_background: uvicorn.run("chatbot:app") imports
\* module chatbot (a second execution of the module body, the script itself
\* being __main__), then binds the socket and serves.
uvicorn_run ==
    /\ proc = "launching"
    /\ Construct("crashed", "serving")
    /\ bound' = ~KeyMissing(env)
    /\ UNCHANGED <<env, requests, running, calls, responses>>
    /\ UNCHANGED clientVars

(* ------------------------------ requests ------------------------------ *)
\* What a processing_chain.invoke call came to: still running, text, exception.
Pending == [kind |-> "pending", val |-> ""]
Returned(t) == [kind |-> "text", val |-> t]
Raised(m) == [kind |-> "error", val |-> m]

\* The call of request r that has not come back yet.
CallOf(r) == CHOOSE i \in 1..Len(calls) : calls[i].req = r /\ calls[i].result = Pending

Response(r, status, key, val) == [req |-> r, status |-> status, key |-> key, val |-> val]

\* A request reaches the listening socket and waits for the event loop.
Receive(path, body) ==
    /\ proc = "serving" /\ bound
    /\ Len(requests) < MaxRequests
    /\ requests' = Append(requests, [path |-> path, body |-> body, pc |-> "pending"])
    /\ UNCHANGED <<env, proc, llm, keyReads, bound, running, calls, responses>>
    /\ UNCHANGED clientVars

\* GET /health: health_check runs to completion in one turn of the loop.
health_check(r) ==
    /\ running = 0
    /\ requests[r].path = "/health" /\ requests[r].pc = "pending"
    /\ requests' = [requests EXCEPT ![r].pc = "done"]
    /\ responses' = Append(responses, Response(r, 200, "status", "healthy"))
    /\ UNCHANGED <<env, proc, llm, keyReads, bound, running, calls>>
    /\ UNCHANGED clientVars

\* POST /conversation whose body fails MessageRequest validation: FastAPI
\* answers 422 and handle_conversation is never entered.
RejectConversation(r) ==
    /\ running = 0
    /\ requests[r].path = "/conversation" /\ requests[r].pc = "pending"
    /\ ~Validates(requests[r].body)
    /\ requests' = [requests EXCEPT ![r].pc = "done"]
    /\ responses' = Append(responses, Response(r, 422, "detail", "validation error"))
    /\ UNCHANGED <<env, proc, llm, keyReads, bound, running, calls>>
    /\ UNCHANGED clientVars

\* The event loop while request r is inside processing_chain.invoke:
\* invoke is a synchronous call inside the coroutine (no await), so the
\* handler keeps the loop's only thread until invoke returns or raises.
LoopDuringInvoke(r) == r

\* handle_conversation -> generate_response up to processing_chain.invoke:
\* the prompt is rendered and sent to the provider.
handle_conversation(r) ==
    /\ running = 0
    /\ requests[r].path = "/conversation" /\ requests[r].pc = "pending"
    /\ Validates(requests[r].body)
    /\ calls' = Append(calls,
          [req |-> r,
           prompt |-> Prompt(ReqMessage(requests[r].body),
                             HandlerContext(requests[r].body)),
           result |-> Pending])
    /\ requests' = [requests EXCEPT ![r].pc = "invoking"]
    /\ running' = LoopDuringInvoke(r)
    /\ UNCHANGED <<env, proc, llm, keyReads, bound, responses>>
    /\ UNCHANGED clientVars

\* Variant: a fallback text in place of an empty completion.
ReplyBodyWithFallback(t) == IF t = "" THEN "Sorry, no answer." ELSE t

\* invoke returns text t: `return result`, then MessageResponse(reply=...).
ReplyBody(t) == t
ProviderReturns(r, t) ==
    /\ requests[r].pc = "invoking"
    /\ requests' = [requests EXCEPT ![r].pc = "done"]
    /\ calls' = [calls EXCEPT ![CallOf(r)].result = Returned(t)]
    /\ responses' = Append(responses, Response(r, 200, "reply", ReplyBody(t)))
    /\ running' = 0
    /\ UNCHANGED <<env, proc, llm, keyReads, bound>>
    /\ UNCHANGED clientVars

\* invoke raises an Exception whose str() is m: the except clause turns it
\* into HTTPException(500); nothing is retried.
ProviderRaises(r, m) ==
    /\ requests[r].pc = "invoking"
    /\ requests' = [requests EXCEPT ![r].pc = "done"]
    /\ calls' = [calls EXCEPT ![CallOf(r)].result = Raised(m)]
    /\ responses' = Append(responses, Response(r, 500, "detail", FailureDetail(m)))
    /\ running' = 0
    /\ UNCHANGED <<env, proc, llm, keyReads, bound>>
    /\ UNCHANGED clientVars

(* ----------------------------- ChatClient ------------------------------ *)
\* Terminal lines and client-side text are sequences of characters.
Whitespace == {" ", "\t"}

\* str.lower() on one character, for the letters the lines below use.
LowerChar(c) ==
    CASE c = "Q" -> "q" [] c = "U" -> "u" [] c = "I" -> "i" [] c = "T" -> "t"
      [] c = "E" -> "e" [] c = "X" -> "x" [] c = "C" -> "c" [] c = "L" -> "l"
      [] c = "A" -> "a" [] c = "R" -> "r" [] c = "H" -> "h"
      [] OTHER -> c

\* str.lower()
Lower(s) == [i \in 1..Len(s) |-> LowerChar(s[i])]

\* str.lstrip(), str.rstrip(), str.strip()
RECURSIVE LStrip(_)
LStrip(s) == IF s # <<>> /\ Head(s) \in Whitespace THEN LStrip(Tail(s)) ELSE s
RECURSIVE RStrip(_)
RStrip(s) ==
    IF s # <<>> /\ s[Len(s)] \in Whitespace THEN RStrip(SubSeq(s, 1, Len(s) - 1)) ELSE s
Strip(s) == RStrip(LStrip(s))

Quit == <<"q", "u", "i", "t">>
Exit == <<"e", "x", "i", "t">>
Q == <<"q">>
Clear == <<"c", "l", "e", "a", "r">>

\* Lines a user may type at the "You: " prompt.
Lines ==
    { <<>>, <<" ", "\t">>,
      <<"q">>, <<" ", "Q", " ">>, <<"Q", "u", "I", "t">>, <<"e", "x", "i", "t", " ">>,
      <<"c", "l", "e", "a", "r">>, <<" ", "C", "L", "E", "A", "R">>,
      <<"h", "i">>, <<" ", "H", "i", " ">>, <<"q", " ", "q">>, <<"c", "l", "e", "a", "r", "!">> }

\* Arguments a script hands to send_message.
Ping == <<"p", "i", "n", "g">>
ApiMessages == {Ping}
ApiContexts == {<<>>, << <<>> >>, << <<"c", "t", "x">> >>}

\* What session.post can come to: a transport exception, or a response with
\* a status and a JSON object body that has a "reply" key (<<r>>) or not (<<>>).
PostOutcomes ==
    { [kind |-> "ConnectionError", status |-> 0, reply |-> <<>>, text |-> "Connection refused"],
      [kind |-> "Timeout", status |-> 0, reply |-> <<>>, text |-> "Read timed out"] }
    \cup [kind : {"response"}, status : {200, 304, 422, 500},
          reply : {<<>>, <<"pong">>}, text : {""}]

\* Variant: only server errors raise.
RaisesForServerError(status) == 500 <= status /\ status < 600

\* response.raise_for_status(): HTTPError for 4xx and 5xx, with its message.
RaisesForStatus(status) == 400 <= status /\ status < 600
HTTPErrorText(status) ==
    IF status < 500 THEN "422 Client Error: Unprocessable Entity"
    ELSE "500 Server Error: Internal Server Error"

\* Variant: the test written as `if context is not None`.
ContextNotNone(ctx) == ctx # <<>>

\* send_message: `if context:` on the optional context argument.
ContextGiven(ctx) == IF ctx = <<>> THEN FALSE ELSE ctx[1] # <<>>

\* send_message: the JSON body posted.
ClientPayload(message, ctx) ==
    [message |-> message,
     background_info |-> IF ContextGiven(ctx) THEN <<ctx[1]>> ELSE <<>>]

\* send_message: what the call comes to for an outcome of the POST; only
\* requests.exceptions.RequestException is caught.
SendResult(outcome) ==
    IF outcome.kind \in {"ConnectionError", "Timeout"}
    THEN [kind |-> "return", val |-> "Error: " \o outcome.text]
    ELSE IF RaisesForStatus(outcome.status)
    THEN [kind |-> "return", val |-> "Error: " \o HTTPErrorText(outcome.status)]
    ELSE IF outcome.reply = <<>>
    THEN [kind |-> "raise", val |-> "KeyError"]
    ELSE [kind |-> "return", val |-> outcome.reply[1]]

\* send_message as a state change: the POST is logged with its outcome.
send_message(origin, message, ctx, outcome) ==
    /\ sent' = Append(sent, [origin |-> origin, context |-> ctx,
                             payload |-> ClientPayload(message, ctx),
                             outcome |-> outcome])
    /\ returned' = Append(returned, SendResult(outcome))

\* A script (test_api_client, or any caller of the class) calls send_message.
ScriptSend(message, ctx, outcome) ==
    /\ cpc = "idle"
    /\ Len(sent) < MaxSends
    /\ send_message("script", message, ctx, outcome)
    /\ cpc' = IF SendResult(outcome).kind = "raise" THEN "crashed" ELSE "idle"
    /\ UNCHANGED <<context, trace>>
    /\ UNCHANGED serverVars

\* interactive_chat up to the loop: `context = ""`.
StartChat ==
    /\ cpc = "idle" /\ sent = <<>>
    /\ cpc' = "chat"
    /\ context' = <<>>
    /\ UNCHANGED <<sent, returned, trace>>
    /\ UNCHANGED serverVars

\* Variant: the quit test without lower().
IsQuitCaseSensitive(user_input) == user_input \in {<<"q", "u", "i", "t">>, <<"e", "x", "i", "t">>, <<"q">>}

\* The branch conditions of the loop body on user_input = input().strip().
IsQuit(user_input) == Lower(user_input) \in {Quit, Exit, Q}
IsClear(user_input) == Lower(user_input) = Clear
IsBlank(user_input) == user_input = <<>>

Entry(kind, line, ctxAfter, sentAfter, ended) ==
    [kind |-> kind, line |-> line, ctxBefore |-> context, ctxAfter |-> ctxAfter,
     sentBefore |-> Len(sent), sentAfter |-> sentAfter, ended |-> ended]

\* One iteration: input() returns line, and it is quit / exit / q.
InputQuit(line) ==
    /\ cpc = "chat" /\ Len(trace) < MaxInputs
    /\ IsQuit(Strip(line))
    /\ cpc' = "done"
    /\ trace' = Append(trace, Entry("line", line, context, Len(sent), TRUE))
    /\ UNCHANGED <<context, sent, returned>>
    /\ UNCHANGED serverVars

\* One iteration: the line is clear.
InputClear(line) ==
    /\ cpc = "chat" /\ Len(trace) < MaxInputs
    /\ ~IsQuit(Strip(line)) /\ IsClear(Strip(line))
    /\ context' = <<>>
    /\ trace' = Append(trace, Entry("line", line, <<>>, Len(sent), FALSE))
    /\ UNCHANGED <<cpc, sent, returned>>
    /\ UNCHANGED serverVars

\* One iteration: the line is blank.
InputBlank(line) ==
    /\ cpc = "chat" /\ Len(trace) < MaxInputs
    /\ ~IsQuit(Strip(line)) /\ ~IsClear(Strip(line)) /\ IsBlank(Strip(line))
    /\ trace' = Append(trace, Entry("line", line, context, Len(sent), FALSE))
    /\ UNCHANGED <<cpc, context, sent, returned>>
    /\ UNCHANGED serverVars

\* One iteration: any other line is sent with the held context; an exception
\* send_message lets through is not caught by the loop.
InputMessage(line, outcome) ==
    /\ cpc = "chat" /\ Len(trace) < MaxInputs
    /\ ~IsQuit(Strip(line)) /\ ~IsClear(Strip(line)) /\ ~IsBlank(Strip(line))
    /\ send_message("loop", Strip(line), <<context>>, outcome)
    /\ cpc' = IF SendResult(outcome).kind = "raise" THEN "crashed" ELSE "chat"
    /\ trace' = Append(trace, Entry("line", line, context, Len(sent) + 1,
                                    SendResult(outcome).kind = "raise"))
    /\ UNCHANGED context
    /\ UNCHANGED serverVars

\* Ctrl-C at the prompt: `except KeyboardInterrupt: break`.
KeyboardInterrupt ==
    /\ cpc = "chat" /\ Len(trace) < MaxInputs
    /\ cpc' = "done"
    /\ trace' = Append(trace, Entry("interrupt", <<>>, context, Len(sent), TRUE))
    /\ UNCHANGED <<context, sent, returned>>
    /\ UNCHANGED serverVars

\* End of input at the prompt: input() raises EOFError, which nothing catches.
InputEOF ==
    /\ cpc = "chat" /\ Len(trace) < MaxInputs
    /\ cpc' = "crashed"
    /\ trace' = Append(trace, Entry("eof", <<>>, context, Len(sent), TRUE))
    /\ UNCHANGED <<context, sent, returned>>
    /\ UNCHANGED serverVars

(* --------------------------- specification ---------------------------- *)
ClientInit ==
    /\ cpc = "idle"
    /\ context = <<>>
    /\ sent = <<>>
    /\ returned = <<>>
    /\ trace = <<>>

ServerInit ==
    /\ proc = "start"
    /\ llm = <<>>
    /\ keyReads = 0
    /\ bound = FALSE
    /\ requests = <<>>
    /\ running = 0
    /\ calls = <<>>
    /\ responses = <<>>

Init == env \in ApiKeys /\ ServerInit /\ ClientInit

Ids == 1..Len(requests)

Next ==
    \/ ImportModule
    \/ \E choice \in Choices : main(choice)
    \/ uvicorn_run
    \/ \E body \in Bodies : Receive("/conversation", body)
    \/ Receive("/health", NoBody)
    \/ \E r \in Ids : health_check(r)
    \/ \E r \in Ids : RejectConversation(r)
    \/ \E r \in Ids : handle_conversation(r)
    \/ \E r \in Ids, t \in ProviderTexts : ProviderReturns(r, t)
    \/ \E r \in Ids, m \in ProviderErrors : ProviderRaises(r, m)

Spec == Init /\ [][Next]_vars

ClientNext ==
    \/ \E m \in ApiMessages, c \in ApiContexts, o \in PostOutcomes : ScriptSend(m, c, o)
    \/ StartChat
    \/ \E line \in Lines : InputQuit(line)
    \/ \E line \in Lines : InputClear(line)
    \/ \E line \in Lines : InputBlank(line)
    \/ \E line \in Lines, o \in PostOutcomes : InputMessage(line, o)
    \/ KeyboardInterrupt
    \/ InputEOF

ClientSpec == Init /\ [][ClientNext]_vars

(* ------------------------- properties: server ------------------------- *)
Posts == {r \in Ids : requests[r].path = "/conversation"}
Handled == {r \in Posts : requests[r].pc # "pending"}
ResponsesTo(r) == {j \in 1..Len(responses) : responses[j].req = r}
CallsFor(r) == {i \in 1..Len(calls) : calls[i].req = r}
Status(r, code) == \E j \in ResponsesTo(r) : responses[j].status = code
RawMessage(r) == requests[r].body.message
RawBackground(r) == requests[r].body.background_info

\* The prompts that end in the user inquiry segment for message text m.
InquiryPrompts(m) ==
    {"You are a helpful AI assistant. " \o seg \o "\n\nUser inquiry: " \o m :
        seg \in {""} \cup {"Context: " \o c : c \in Contexts}}

\* C1 as stated: a handled POST /conversation is answered 422 exactly when
\* its body has no message key or its message is a string of length 0; a
\* rejected request makes no provider call.
CounterexampleC1 ==
    \A r \in Handled :
        /\ Status(r, 422) <=>
              (IF RawMessage(r) = <<>> THEN TRUE
               ELSE RawMessage(r)[1].kind = "str" /\ Len(RawMessage(r)[1].val) = 0)
        /\ Status(r, 422) => CallsFor(r) = {}

\* C1 amended: a handled POST /conversation is answered 422 exactly when the
\* body does not have the declared shape (message missing, not a string, or
\* a string of length 0; background_info present and neither a string nor
\* null).  A whitespace-only message is accepted and reaches the provider
\* untrimmed.  A rejected request makes no provider call.
TheoremC1 ==
    \A r \in Handled :
        /\ Status(r, 422) <=>
              \/ RawMessage(r) \in {<<>>, <<JNull>>, <<JObj>>, <<JStr("")>>}
              \/ RawBackground(r) = <<JObj>>
        /\ Status(r, 422) => CallsFor(r) = {}
        /\ (RawMessage(r) = <<JStr(" ")>> /\ ~Status(r, 422)) =>
              \E i \in CallsFor(r) : calls[i].prompt \in InquiryPrompts(" ")

\* C1 witness: a single-space message was forwarded and another request was
\* rejected without a provider call.
WitnessC1 ==
    \E r, q \in Handled :
        /\ RawMessage(r) = <<JStr(" ")>> /\ CallsFor(r) # {}
        /\ RawMessage(q) = <<JStr("")>> /\ Status(q, 422) /\ CallsFor(q) = {}

\* C2: when the provider call of a request raised an exception with message
\* m, the request has exactly one response, 500 with detail
\* "AI processing failed: " + m, and the provider was called once for it.
TheoremC2 ==
    \A i \in 1..Len(calls) :
        calls[i].result.kind = "error" =>
            /\ Cardinality(CallsFor(calls[i].req)) = 1
            /\ Cardinality(ResponsesTo(calls[i].req)) = 1
            /\ \A j \in ResponsesTo(calls[i].req) :
                  /\ responses[j].status = 500
                  /\ responses[j].key = "detail"
                  /\ responses[j].val = "AI processing failed: " \o calls[i].result.val

\* C2 witness: a provider call raised "quota exceeded" and was answered.
WitnessC2 ==
    \E i \in 1..Len(calls) :
        /\ calls[i].result = Raised("quota exceeded")
        /\ Status(calls[i].req, 500)

\* C3: when the provider call of a request returned text t, the request has
\* exactly one response, 200 with body {"reply": t}, after exactly one
\* provider call.
TheoremC3 ==
    \A i \in 1..Len(calls) :
        calls[i].result.kind = "text" =>
            /\ Cardinality(CallsFor(calls[i].req)) = 1
            /\ Cardinality(ResponsesTo(calls[i].req)) = 1
            /\ \A j \in ResponsesTo(calls[i].req) :
                  /\ responses[j].status = 200
                  /\ responses[j].key = "reply"
                  /\ responses[j].val = calls[i].result.val

\* C3 witness: the provider returned "Hi there" for a message "Hello".
WitnessC3 ==
    \E i \in 1..Len(calls) :
        /\ calls[i].result = Returned("Hi there")
        /\ RawMessage(calls[i].req) = <<JStr("Hello")>>
        /\ Status(calls[i].req, 200)

\* C4: the prompt of every provider call is the preamble, then
\* "Context: " + context when the request's background_info is a non-empty
\* string and nothing otherwise, then a blank line, then
\* "User inquiry: " + message.
TheoremC4 ==
    \A i \in 1..Len(calls) :
        LET bg == RawBackground(calls[i].req)
            seg == IF bg \in {<<>>, <<JNull>>, <<JStr("")>>} THEN ""
                   ELSE "Context: " \o bg[1].val
        IN calls[i].prompt =
              "You are a helpful AI assistant. " \o seg \o "\n\n"
                 \o "User inquiry: " \o RawMessage(calls[i].req)[1].val

\* C4 witness: one prompt was rendered with a context and one for an empty
\* background_info.
WitnessC4 ==
    \E i, j \in 1..Len(calls) :
        /\ RawBackground(calls[i].req) = <<JStr("ctx")>>
        /\ RawBackground(calls[j].req) = <<JStr("")>>

\* C6 as stated: a handler that waits for the provider is suspended, so the
\* event loop is not held by it and can run other requests meanwhile.
CounterexampleC6 ==
    \A r \in Posts : requests[r].pc = "invoking" => running # r

TheoremC9 ==
    \A i, j \in 1..Len(calls) :
        requests[calls[i].req].body = requests[calls[j].req].body =>
            calls[i].prompt = calls[j].prompt

\* C9 witness: the same body was served twice, the second after the first
\* was answered.
WitnessC9 ==
    \E i, j \in 1..Len(calls) :
        /\ i < j
        /\ requests[calls[i].req].body = requests[calls[j].req].body
        /\ calls[i].result.kind # "pending"

(* ------------------------- properties: client ------------------------- *)
ErrorStrings ==
    {"Error: " \o d : d \in {o.text : o \in PostOutcomes}
                            \cup {"422 Client Error: Unprocessable Entity",
                                  "500 Server Error: Internal Server Error"}}
Failed(o) == o.kind \in {"ConnectionError", "Timeout"}

\* C5 as stated: send_message never raises; on a transport failure or a
\* non-2xx status it returns a string that starts with "Error: "; on a 2xx
\* response with body {"reply": r} it returns r.
CounterexampleC5 ==
    \A i \in 1..Len(sent) :
        LET o == sent[i].outcome IN
        /\ returned[i].kind = "return"
        /\ (Failed(o) \/ o.status < 200 \/ o.status >= 300) =>
              returned[i].val \in ErrorStrings
        /\ (~Failed(o) /\ o.status >= 200 /\ o.status < 300 /\ o.reply # <<>>) =>
              returned[i].val = o.reply[1]

\* C5 amended: on connection refusal, timeout or a 4xx/5xx status
\* send_message returns a string that starts with "Error: "; on a response
\* with a status below 400 and JSON body {"reply": r} it returns r; it
\* raises (KeyError) exactly when a response with a status below 400 has a
\* JSON object body without "reply".
TheoremC5 ==
    \A i \in 1..Len(sent) :
        LET o == sent[i].outcome IN
        /\ (Failed(o) \/ o.status >= 400) =>
              returned[i].kind = "return" /\ returned[i].val \in ErrorStrings
        /\ (~Failed(o) /\ o.status < 400 /\ o.reply # <<>>) =>
              returned[i] = [kind |-> "return", val |-> o.reply[1]]
        /\ returned[i].kind = "raise" <=>
              (~Failed(o) /\ o.status < 400 /\ o.reply = <<>>)

\* C5 witness: one call met a refused connection and one got a reply.
WitnessC5 ==
    \E i, j \in 1..Len(sent) :
        /\ sent[i].outcome.kind = "ConnectionError"
        /\ returned[i].val = "Error: Connection refused"
        /\ sent[j].outcome.status = 200
        /\ returned[j].val = "pong"

\* C7: in the interactive loop a line that trimmed and lower-cased is quit,
\* exit or q ends the loop (it is the last prompt) without a request; clear
\* empties the held context without a request; a blank line sends nothing
\* and changes nothing; every other line makes exactly one send_message call
\* with the trimmed line and the held context; a keyboard interrupt ends the
\* loop.  Nothing is sent between two prompts.
TheoremC7 ==
    \A i \in 1..Len(trace) :
        LET e == trace[i]
            t == Strip(e.line)
            low == Lower(t)
        IN
        /\ e.ended => i = Len(trace) /\ cpc \in {"done", "crashed"}
        /\ i < Len(trace) =>
              /\ trace[i + 1].sentBefore = e.sentAfter
              /\ trace[i + 1].ctxBefore = e.ctxAfter
        /\ e.kind = "interrupt" =>
              e.ended /\ cpc = "done" /\ e.sentAfter = e.sentBefore
        /\ e.kind = "line" =>
              IF low \in {Quit, Exit, Q}
              THEN e.ended /\ cpc = "done" /\ e.sentAfter = e.sentBefore
              ELSE IF low = Clear
              THEN ~e.ended /\ e.ctxAfter = <<>> /\ e.sentAfter = e.sentBefore
              ELSE IF t = <<>>
              THEN ~e.ended /\ e.ctxAfter = e.ctxBefore /\ e.sentAfter = e.sentBefore
              ELSE /\ e.sentAfter = e.sentBefore + 1
                   /\ e.sentAfter = Len(sent) \/ i < Len(trace)
                   /\ sent[e.sentAfter].origin = "loop"
                   /\ sent[e.sentAfter].payload.message = t
                   /\ sent[e.sentAfter].context = <<e.ctxBefore>>
                   /\ e.ctxAfter = e.ctxBefore

\* C7 witness: " Hi " was sent as "Hi", then "QuIt" ended the loop.
WitnessC7 ==
    /\ Len(trace) = 2 /\ cpc = "done" /\ Len(sent) = 1
    /\ trace[1].line = <<" ", "H", "i", " ">>
    /\ sent[1].payload.message = <<"H", "i">>
    /\ trace[2].line = <<"Q", "u", "I", "t">>

\* C10: a send_message call puts background_info in the body exactly when
\* its context argument is a non-empty string; the context held by the
\* interactive loop is always empty, and no request of the loop carries
\* background_info.
TheoremC10 ==
    /\ \A i \in 1..Len(sent) :
          /\ sent[i].payload.background_info # <<>> <=>
                sent[i].context \notin {<<>>, << <<>> >>}
          /\ sent[i].payload.background_info # <<>> =>
                sent[i].payload.background_info = sent[i].context
          /\ sent[i].origin = "loop" => sent[i].payload.background_info = <<>>
    /\ context = <<>>

\* C10 witness: the loop has sent a request, after a clear.
WitnessC10 ==
    \E i \in 1..Len(trace) :
        /\ trace[i].sentAfter = trace[i].sentBefore + 1
        /\ sent[trace[i].sentAfter].origin = "loop"
        /\ i > 1 /\ Lower(Strip(trace[i - 1].line)) = Clear
====
